---- MODULE Spec2Model ----
(***************************************************************************)
(* A model of the TEL/PQL lifter (from_pql.py) and renderer (to_pql.py).   *)
(*                                                                         *)
(* Python str values are sequences of one-character strings; Python None   *)
(* in a str position is the sentinel None; Python values of mixed type     *)
(* (a Literal's value) are tagged records.  Parse-tree nodes (the contexts *)
(* the ANTLR parser hands to the lifter) and AST nodes are records tagged   *)
(* by "kind".  Every AST node carries an "oid", the identity of the Python *)
(* object (the place of the constructor call that made it), so that two    *)
(* references to one object can be told from two equal objects.            *)
(***************************************************************************)
EXTENDS Integers, Sequences, FiniteSets, TLC

VARIABLES
    pc,          \* which entry point is running, and how far it got
    ctx,         \* parse_expr: the ExprContext passed in
    node,        \* parse_expr: the value returned, or the ParseError raised
    tel,         \* to_tel: the text rendered from node
    s,           \* unquote: the argument
    unquoted,    \* unquote: the value returned
    tree,        \* from_tel: the children of the parseTel root, in order
    pos,         \* from_tel: the child the visitor is at
    statements,  \* from_tel: the closure's list
    result       \* from_tel: the value returned, or the ParseError raised

vars == <<pc, ctx, node, tel, s, unquoted, tree, pos, statements, result>>

----------------------------------------------------------------------------
(* Bounds of the inputs *)

MaxLen == 4        \* longest argument of unquote
MaxParens == 2     \* most paren wrappers added around an operand, and around the whole
MaxList == 2       \* longest right-hand list of an IN-style operator
MaxChildren == 2   \* most children of the parseTel root

----------------------------------------------------------------------------
(* Text *)

None == <<"None">>

DQ == "\""
SQ == "'"
BS == "\\"

Lowers == <<"a","b","c","d","e","f","g","h","i","j","k","l","m",
            "n","o","p","q","r","s","t","u","v","w","x","y","z">>
Uppers == <<"A","B","C","D","E","F","G","H","I","J","K","L","M",
            "N","O","P","Q","R","S","T","U","V","W","X","Y","Z">>
Digits == <<"0","1","2","3","4","5","6","7","8","9">>

UpperChar(c) ==
    IF \E i \in DOMAIN Lowers : Lowers[i] = c
    THEN Uppers[CHOOSE i \in DOMAIN Lowers : Lowers[i] = c]
    ELSE c

\* str.upper()
upper(t) == [i \in DOMAIN t |-> UpperChar(t[i])]

\* t[a:b] for 0 <= a, in Python's 0-based half-open indexing
Slice(t, a, b) == IF b <= a THEN <<>> ELSE SubSeq(t, a + 1, b)

StartsWithAt(t, i, old) ==
    /\ i + Len(old) - 1 <= Len(t)
    /\ SubSeq(t, i, i + Len(old) - 1) = old

\* str.replace(old, new): leftmost non-overlapping occurrences, old non-empty
RECURSIVE ReplaceFrom(_, _, _, _)
ReplaceFrom(t, i, old, new) ==
    IF i > Len(t) THEN <<>>
    ELSE IF StartsWithAt(t, i, old)
         THEN new \o ReplaceFrom(t, i + Len(old), old, new)
         ELSE <<t[i]>> \o ReplaceFrom(t, i + 1, old, new)

replace(t, old, new) == ReplaceFrom(t, 1, old, new)

\* a contiguous occurrence of needle in t
Occurs(needle, t) ==
    \E i \in 1..(Len(t) + 1) : StartsWithAt(t, i, needle)

RECURSIVE Join(_, _)
Join(parts, sep) ==
    IF parts = <<>> THEN <<>>
    ELSE IF Len(parts) = 1 THEN parts[1]
    ELSE parts[1] \o sep \o Join(Tail(parts), sep)

\* the recognized wrapper of unquote: wrapper == ('"','"') or ("'","'")
unquote_wrapped(t) ==
    \/ (t[1] = DQ /\ t[Len(t)] = DQ)
    \/ (t[1] = SQ /\ t[Len(t)] = SQ)

unquote(t) ==
    IF t = None \/ t = <<>> THEN t
    ELSE LET stripped == IF unquote_wrapped(t) THEN Slice(t, 1, Len(t) - 1) ELSE t
         IN  replace(replace(stripped, <<BS, DQ>>, <<DQ>>), <<BS, SQ>>, <<SQ>>)

----------------------------------------------------------------------------
(* Python values held by a Literal: None, bool, int, float, str.           *)
(* bool is a subclass of int: True is 1 and False is 0 under arithmetic    *)
(* and under isinstance(v, int).  A float is n / 10^d.                     *)

PyNone == [t |-> "NoneType", n |-> 0, d |-> 0, s |-> <<>>]
PyBool(b) == [t |-> "bool", n |-> IF b THEN 1 ELSE 0, d |-> 0, s |-> <<>>]
PyInt(n) == [t |-> "int", n |-> n, d |-> 0, s |-> <<>>]
PyFloat(n, d) == [t |-> "float", n |-> n, d |-> d, s |-> <<>>]
PyStr(t) == [t |-> "str", n |-> 0, d |-> 0, s |-> t]

\* isinstance(v, (int, float, Decimal))
isinstance_number(v) == v.t \in {"bool", "int", "float"}

\* v * -1
times_minus_one(v) ==
    IF v.t = "float" THEN PyFloat(0 - v.n, v.d) ELSE PyInt(0 - v.n)

\* bool(v)
truthy(v) ==
    CASE v.t = "NoneType" -> FALSE
      [] v.t = "str" -> v.s # <<>>
      [] OTHER -> v.n # 0

IsDigit(c) == \E i \in DOMAIN Digits : Digits[i] = c
DigitValue(c) == (CHOOSE i \in DOMAIN Digits : Digits[i] = c) - 1

RECURSIVE DecimalValue(_)
DecimalValue(t) ==
    IF t = <<>> THEN 0
    ELSE 10 * DecimalValue(SubSeq(t, 1, Len(t) - 1)) + DigitValue(t[Len(t)])

\* int(v) succeeds: v is a non-empty run of digits
int_ok(t) == t # <<>> /\ \A i \in DOMAIN t : IsDigit(t[i])

\* float(v) succeeds: digits with one point and at least one digit
float_ok(t) ==
    /\ \A i \in DOMAIN t : IsDigit(t[i]) \/ t[i] = "."
    /\ Cardinality({i \in DOMAIN t : t[i] = "."}) <= 1
    /\ \E i \in DOMAIN t : IsDigit(t[i])

float_value(t) ==
    IF \E i \in DOMAIN t : t[i] = "."
    THEN LET k == CHOOSE i \in DOMAIN t : t[i] = "."
         IN  PyFloat(DecimalValue(SubSeq(t, 1, k - 1) \o SubSeq(t, k + 1, Len(t))),
                     Len(t) - k)
    ELSE PyFloat(DecimalValue(t), 0)

----------------------------------------------------------------------------
(* Parse-tree nodes: the shape contract of the external grammar            *)

NoCtx == [kind |-> "NoCtx"]

LiteralValueContext(token, text) ==
    [kind |-> "literalValue", token |-> token, text |-> text]
ParenContext(inner) == [kind |-> "paren", inner |-> inner]
UnaryContext(op, right) ==
    [kind |-> "unary", unary_operator |-> op, right |-> right]
InfixContext(left, op, is_negated, right) ==
    [kind |-> "infix", left |-> left, operator |-> op, is_negated |-> is_negated,
     right |-> right, has_right_list |-> FALSE, right_list |-> <<>>]
InfixListContext(left, op, is_negated, list) ==
    [kind |-> "infix", left |-> left, operator |-> op, is_negated |-> is_negated,
     right |-> NoCtx, has_right_list |-> TRUE, right_list |-> list]
TaxonContext(slug, namespace, is_optional, tag) ==
    [kind |-> "taxon", slug |-> slug, namespace |-> namespace,
     is_optional |-> is_optional, tag |-> tag]
FnContext(function_name, has_arguments, arguments) ==
    [kind |-> "fn", function_name |-> function_name,
     has_arguments |-> has_arguments, arguments |-> arguments]
\* an expression alternative none of the lifter's rules knows
OtherContext(text) == [kind |-> "other", text |-> text]

IsWord(t) == t # <<>> /\ \E i \in DOMAIN Uppers : UpperChar(t[1]) = Uppers[i]

\* The source text a node spans.  Tokens are written with one blank
\* around keyword operators and none around symbols.
RECURSIVE SourceText(_)
SourceText(e) ==
    CASE e.kind = "literalValue" -> e.text
      [] e.kind = "paren" -> <<"(">> \o SourceText(e.inner) \o <<")">>
      [] e.kind = "unary" ->
            e.unary_operator
            \o (IF IsWord(e.unary_operator) THEN <<" ">> ELSE <<>>)
            \o SourceText(e.right)
      [] e.kind = "infix" ->
            SourceText(e.left)
            \o (IF e.is_negated THEN <<" ", "n", "o", "t">> ELSE <<>>)
            \o (IF IsWord(e.operator) \/ e.is_negated THEN <<" ">> ELSE <<>>)
            \o e.operator
            \o (IF IsWord(e.operator) THEN <<" ">> ELSE <<>>)
            \o (IF e.has_right_list
                THEN <<"(">>
                     \o Join([i \in DOMAIN e.right_list |-> SourceText(e.right_list[i])],
                             <<",">>)
                     \o <<")">>
                ELSE SourceText(e.right))
      [] e.kind = "taxon" ->
            (IF e.is_optional THEN <<"?">> ELSE <<>>)
            \o (IF e.namespace # None THEN e.namespace \o <<"|">> ELSE <<>>)
            \o e.slug
            \o (IF e.tag # None THEN <<":">> \o e.tag ELSE <<>>)
      [] e.kind = "fn" ->
            e.function_name \o <<"(">>
            \o Join([i \in DOMAIN e.arguments |-> SourceText(e.arguments[i])], <<",">>)
            \o <<")">>
      [] OTHER -> e.text

\* full_text(ctx) of a rule context: the source text it spans
full_text(e) == SourceText(e)

\* full_text(tok) of a token: its text, and None when the token is absent
token_text(tok) == tok

----------------------------------------------------------------------------
(* AST nodes (the model module) and the error the lifter raises            *)

\* Literal(value, raw_value): the renderer reads the second field as raw_value
Literal(value, raw_value, oid) ==
    [kind |-> "Literal", value |-> value, raw_value |-> raw_value, oid |-> oid]
Taxon(slug, namespace, is_optional, tag, oid) ==
    [kind |-> "Taxon", slug |-> slug, namespace |-> namespace,
     is_optional |-> is_optional, tag |-> tag, oid |-> oid]
\* args is a tuple of (arg_name, arg_value) pairs, or None (args_is_none)
Function(function_name, args_is_none, args, oid) ==
    [kind |-> "Function", function_name |-> function_name,
     args_is_none |-> args_is_none, args |-> args, oid |-> oid]
Expr(operator, args, oid) ==
    [kind |-> "Expr", operator |-> operator, args |-> args, oid |-> oid]

NoNode == [kind |-> "NoNode"]

\* raise ParseError(...): what failed, the text the message quotes, and for
\* an error node the line and the position the message gives
ParseError(error, text, line, position) ==
    [kind |-> "ParseError", error |-> error, text |-> text,
     line |-> line, position |-> position]

IsParseError(x) == "kind" \in DOMAIN x /\ x.kind = "ParseError"

HasError(xs) == \E i \in DOMAIN xs : IsParseError(xs[i])
FirstError(xs) == xs[CHOOSE i \in DOMAIN xs :
                        IsParseError(xs[i]) /\ \A j \in 1..(i - 1) : ~IsParseError(xs[j])]

\* operator and keyword texts
kPLUS == <<"+">>
kMINUS == <<"-">>
kNOT == <<"N", "O", "T">>
kAND == <<"A", "N", "D">>
kOR == <<"O", "R">>
kBETWEEN == <<"B", "E", "T", "W", "E", "E", "N">>
kEQ == <<"=">>
kLT == <<"<">>
kGT == <<">">>
kGE == <<">", "=">>
kLE == <<"<", "=">>
kTrue == <<"t", "r", "u", "e">>
kFalse == <<"f", "a", "l", "s", "e">>

\* which constructor call of parse_expr (at the context on path p) made an object
NewOid(p, site) == Append(p, site)
siteLiteral == 30
siteFoldMinus == 31
siteFoldNot == 32
siteUnary == 33
siteInfix == 34
siteNot == 35
siteBetween == 36
siteBetweenLow == 37
siteBetweenHigh == 38
siteTaxon == 39
siteFunction == 40
\* the path steps to a context's children
stepLeft == 1
stepRight == 2
stepList == 100
stepArgument == 200

----------------------------------------------------------------------------
(* The lifter: PqlAntlrToAstParser                                         *)

\* a slip of unwrap_expr_parens: one wrapper taken off, not all of them
unwrap_expr_parens_once(e) ==
    IF e.kind = "paren" THEN e.inner ELSE e

RECURSIVE unwrap_expr_parens(_)
unwrap_expr_parens(e) ==
    IF e.kind = "paren" THEN unwrap_expr_parens(e.inner) ELSE e

parse_taxon(e, p) ==
    Taxon(token_text(e.slug), token_text(e.namespace), e.is_optional,
          token_text(e.tag), NewOid(p, siteTaxon))

parse_literal_value(e) ==
    LET is_number == e.token = "NUMERIC_LITERAL"
        is_string == e.token \in {"DOUBLE_QUOTED_STRING", "SINGLE_QUOTED_STRING"}
        is_null == e.token = "K_NULL"
        is_bool == e.token \in {"K_TRUE", "K_FALSE"}
        v == full_text(e)
    IN  IF is_null THEN PyNone
        ELSE IF is_bool THEN PyBool(e.token = "K_TRUE")
        ELSE IF is_number
             THEN IF int_ok(v) THEN PyInt(DecimalValue(v))
                  ELSE IF float_ok(v) THEN float_value(v)
                  ELSE ParseError("number", v, 0, 0)
        ELSE IF is_string THEN PyStr(unquote(v))
        ELSE PyStr(v)

parse_literal(e, p) ==
    LET value == parse_literal_value(e)
    IN  IF IsParseError(value) THEN value
        ELSE Literal(value, full_text(e), NewOid(p, siteLiteral))

\* lines 167-213: the unary rules, given the lifted operand
parse_unary(e, right, p) ==
    LET operator == upper(token_text(e.unary_operator))
    IN  IF operator = kPLUS THEN right
        ELSE IF /\ operator = kMINUS
                /\ right.kind = "Literal"
                /\ isinstance_number(right.value)
             THEN Literal(times_minus_one(right.value), full_text(e),
                          NewOid(p, siteFoldMinus))
        ELSE IF operator = kNOT /\ right.kind = "Literal"
             THEN LET v == ~truthy(right.value)
                  IN  Literal(PyBool(v), IF v THEN kTrue ELSE kFalse,
                              NewOid(p, siteFoldNot))
        ELSE Expr(operator, <<right>>, NewOid(p, siteUnary))

\* a slip of is_between_and: any two-argument Expr passes
is_between_and_any_operator(between_and) ==
    /\ between_and.kind = "Expr"
    /\ Len(between_and.args) = 2

\* lines 259-263: the check of what BETWEEN's right side lifted to
is_between_and(between_and) ==
    /\ between_and.kind = "Expr"
    /\ between_and.operator = kAND
    /\ Len(between_and.args) = 2

\* a slip of desugar_between: the negation flag is not looked at
desugar_between_positive_only(left, between_and, is_negated, p) ==
    Expr(kAND,
         <<Expr(kGE, <<left, between_and.args[1]>>, NewOid(p, siteBetweenLow)),
           Expr(kLE, <<left, between_and.args[2]>>, NewOid(p, siteBetweenHigh))>>,
         NewOid(p, siteBetween))

\* lines 271-315: both comparisons take the one object left
desugar_between(left, between_and, is_negated, p) ==
    IF is_negated
    THEN Expr(kOR,
              <<Expr(kLT, <<left, between_and.args[1]>>, NewOid(p, siteBetweenLow)),
                Expr(kGT, <<left, between_and.args[2]>>, NewOid(p, siteBetweenHigh))>>,
              NewOid(p, siteBetween))
    ELSE Expr(kAND,
              <<Expr(kGE, <<left, between_and.args[1]>>, NewOid(p, siteBetweenLow)),
                Expr(kLE, <<left, between_and.args[2]>>, NewOid(p, siteBetweenHigh))>>,
              NewOid(p, siteBetween))

\* lines 317-320
build_infix(op, left, right, p) ==
    Expr(op, <<left>> \o right, NewOid(p, siteInfix))

\* a slip of wrap_negation: the negation flag is dropped
wrap_negation_dropped(ex, is_negated, p) == ex

\* lines 331-337
wrap_negation(ex, is_negated, p) ==
    IF is_negated THEN Expr(kNOT, <<ex>>, NewOid(p, siteNot)) ELSE ex

RECURSIVE parse_expr(_, _)
RECURSIVE parse_function(_, _)
RECURSIVE parse_function_argument_pair(_, _)

\* lines 215-337: the infix rules.  The right side is lifted first, BETWEEN
\* lifts it a second time after the left side.
parse_infix(e, p) ==
    LET op == upper(token_text(e.operator))
        right == IF e.has_right_list
                 THEN [i \in DOMAIN e.right_list |->
                          parse_expr(e.right_list[i], Append(p, stepList + i))]
                 ELSE <<parse_expr(e.right, Append(p, stepRight))>>
        left == parse_expr(e.left, Append(p, stepLeft))
    IN  IF HasError(right) THEN FirstError(right)
        ELSE IF IsParseError(left) THEN left
        ELSE IF op = kBETWEEN
             THEN LET between_and == parse_expr(e.right, Append(p, stepRight))
                  IN  IF is_between_and(between_and)
                      THEN desugar_between(left, between_and, e.is_negated, p)
                      ELSE ParseError("between", full_text(e.right), 0, 0)
        ELSE wrap_negation(build_infix(op, left, right, p), e.is_negated, p)

parse_expr(ctx0, p) ==
    LET e == unwrap_expr_parens(ctx0)
    IN  CASE e.kind = "literalValue" -> parse_literal(e, p)
          [] e.kind = "unary" ->
                LET right == parse_expr(e.right, Append(p, stepRight))
                IN  IF IsParseError(right) THEN right ELSE parse_unary(e, right, p)
          [] e.kind = "infix" -> parse_infix(e, p)
          [] e.kind = "taxon" -> parse_taxon(e, p)
          [] e.kind = "fn" -> parse_function(e, p)
          [] OTHER -> ParseError("unsupported", full_text(e), 0, 0)

parse_function_argument_pair(e0, p) ==
    LET e == unwrap_expr_parens(e0)
        o == IF e.kind = "infix" THEN token_text(e.operator) ELSE None
    IN  IF o = kEQ
        THEN [arg_name |-> full_text(e.left),
              arg_value |-> parse_expr(e.right, Append(p, stepRight))]
        ELSE [arg_name |-> None, arg_value |-> parse_expr(e, p)]

parse_function(e, p) ==
    LET pairs == [i \in DOMAIN e.arguments |->
                    parse_function_argument_pair(e.arguments[i],
                                                 Append(p, stepArgument + i))]
        values == [i \in DOMAIN pairs |-> pairs[i].arg_value]
    IN  IF ~e.has_arguments
        THEN Function(token_text(e.function_name), TRUE, <<>>, NewOid(p, siteFunction))
        ELSE IF HasError(values) THEN FirstError(values)
        ELSE Function(token_text(e.function_name), FALSE, pairs, NewOid(p, siteFunction))

----------------------------------------------------------------------------
(* The renderer: to_pql.py *)

RECURSIVE to_r(_)

\* Expr.__str__
render_Expr(n) ==
    LET op == n.operator
    IN  IF Len(n.args) = 1
        THEN LET right == n.args[1]
                 padding == IF op \in {kPLUS, kMINUS} THEN <<>> ELSE <<" ">>
             IN  op \o padding \o to_r(right)
        ELSE LET left == n.args[1]
                 right == n.args[2]
             IN  <<"(">> \o to_r(left) \o <<" ">> \o op \o <<" ">> \o to_r(right) \o <<")">>

\* Literal.__str__
render_Literal(n) == n.raw_value

\* Taxon.__str__
render_Taxon(n) ==
    LET is_optional == IF n.is_optional THEN <<"?">> ELSE <<>>
        namespace == IF n.namespace # None /\ n.namespace # <<>>
                     THEN n.namespace \o <<"|">> ELSE <<>>
        tag == IF n.tag # None /\ n.tag # <<>> THEN <<":">> \o n.tag ELSE <<>>
    IN  is_optional \o namespace \o n.slug \o tag

\* Function.__str__
render_Function(n) ==
    LET fn == n.function_name
        args == Join([i \in DOMAIN n.args |->
                        IF n.args[i].arg_name # None /\ n.args[i].arg_name # <<>>
                        THEN n.args[i].arg_name \o <<"=">> \o to_r(n.args[i].arg_value)
                        ELSE to_r(n.args[i].arg_value)],
                     <<",">>)
    IN  fn \o <<"(">> \o args \o <<")">>

\* to_r, with the renderer's __str__ applied
to_r(n) ==
    CASE n.kind = "Expr" -> render_Expr(n)
      [] n.kind = "Literal" -> render_Literal(n)
      [] n.kind = "Taxon" -> render_Taxon(n)
      [] n.kind = "Function" -> render_Function(n)

to_tel(o) == to_r(o)

----------------------------------------------------------------------------
(* from_tel: the visitor over the children of the parseTel root            *)

ExprChild(e) == [kind |-> "expr", ctx |-> e, text |-> None, line |-> 0, column |-> 0]
ErrorNode(text, line, column) ==
    [kind |-> "error", ctx |-> NoCtx, text |-> text, line |-> line, column |-> column]
TerminalNode(text) ==
    [kind |-> "terminal", ctx |-> NoCtx, text |-> text, line |-> 0, column |-> 0]

\* statements[0] if statements else None
NoneNode == [kind |-> "None"]
first_statement(stmts) == IF stmts # <<>> THEN stmts[1] ELSE NoneNode

\* a slip of visitErrorNode: the column reported as the token gives it, from 0
error_node_error_zero_based(n) == ParseError("symbol", n.text, n.line, n.column)

\* PqlVisitor.visitErrorNode: the error it raises
error_node_error(n) == ParseError("symbol", n.text, n.line, n.column + 1)

----------------------------------------------------------------------------
(* The inputs *)

RECURSIVE StringsUpTo(_)
StringsUpTo(n) ==
    IF n = 0 THEN {<<>>}
    ELSE LET shorter == StringsUpTo(n - 1)
         IN  shorter \cup {Append(t, c) : t \in {u \in shorter : Len(u) = n - 1},
                                         c \in {DQ, SQ, BS, "a"}}

RECURSIVE SeqsUpTo(_, _)
SeqsUpTo(S, n) ==
    IF n = 0 THEN {<<>>}
    ELSE LET shorter == SeqsUpTo(S, n - 1)
         IN  shorter \cup {Append(q, x) : q \in {u \in shorter : Len(u) = n - 1}, x \in S}

RECURSIVE Parens(_, _)
Parens(e, k) == IF k = 0 THEN e ELSE ParenContext(Parens(e, k - 1))

lit5 == LiteralValueContext("NUMERIC_LITERAL", <<"5">>)
lit10 == LiteralValueContext("NUMERIC_LITERAL", <<"1", "0">>)
lit1p5 == LiteralValueContext("NUMERIC_LITERAL", <<"1", ".", "5">>)
litTrue == LiteralValueContext("K_TRUE", kTrue)
litFalse == LiteralValueContext("K_FALSE", <<"F", "A", "L", "S", "E">>)
litNull == LiteralValueContext("K_NULL", <<"n", "u", "l", "l">>)
litDQ == LiteralValueContext("DOUBLE_QUOTED_STRING", <<DQ, "a", BS, DQ, "b", DQ>>)
litSQ == LiteralValueContext("SINGLE_QUOTED_STRING", <<SQ, SQ>>)
taxonX == TaxonContext(<<"x">>, None, FALSE, None)
taxonFull == TaxonContext(<<"s", "l", "u", "g">>, <<"n", "s">>, TRUE, <<"t", "a", "g">>)
taxonQuoted == TaxonContext(<<DQ, "m", "y", " ", "x", DQ>>, <<SQ, "n", SQ>>, FALSE,
                            <<DQ, "t", DQ>>)
otherStar == OtherContext(<<"*">>)

Atoms == {lit5, lit1p5, litTrue, litFalse, litNull, litDQ, litSQ,
          taxonX, taxonFull, taxonQuoted, otherStar}
Basic == {lit5, lit10, taxonX}

UnaryOperators == {<<"+">>, <<"-">>, <<"n", "o", "t">>, kNOT}
kand == <<"a", "n", "d">>
kin == <<"i", "n">>
kbetween == <<"b", "e", "t", "w", "e", "e", "n">>

Pairs ==
    {InfixContext(a, op, FALSE, b) : a \in {lit5, taxonX}, b \in Basic,
                                     op \in {kand, kAND, <<"o", "r">>, kGE}}
    \cup {InfixContext(lit5, kand, TRUE, lit10)}

Lists ==
    {InfixListContext(taxonX, op, neg, l) :
        op \in {kin, kand}, neg \in BOOLEAN, l \in SeqsUpTo({lit5, lit10}, MaxList)}

Functions ==
    {FnContext(<<"f">>, FALSE, <<>>), FnContext(<<"f">>, TRUE, <<>>),
     FnContext(<<"f">>, TRUE, <<lit5, InfixContext(taxonX, kEQ, FALSE, lit10)>>),
     FnContext(<<"f">>, TRUE, <<Parens(InfixContext(Parens(taxonX, 1), kEQ, FALSE,
                                                    Parens(lit5, 1)), 1)>>),
     FnContext(<<"f">>, TRUE, <<Parens(taxonX, 1), otherStar>>)}

Operands0 ==
    Atoms \cup Pairs \cup Lists \cup Functions
    \cup {UnaryContext(op, a) : op \in UnaryOperators, a \in Atoms}

Operands == {Parens(e, k) : e \in Operands0, k \in 0..MaxParens}

Lefts == {taxonX, Parens(lit5, 1), UnaryContext(<<"-">>, lit5), otherStar}

Inputs0 ==
    Operands
    \cup {UnaryContext(op, e) : op \in UnaryOperators, e \in Operands}
    \cup {InfixContext(l, op, neg, r) :
            l \in Lefts, op \in {kand, kLT}, neg \in BOOLEAN, r \in Operands}
    \cup {InfixContext(l, op, neg, r) :
            l \in Lefts, op \in {kbetween, kBETWEEN}, neg \in BOOLEAN, r \in Operands}
    \cup {InfixListContext(taxonX, kin, neg, l) :
            neg \in BOOLEAN,
            l \in SeqsUpTo({lit5, Parens(taxonX, 1), UnaryContext(<<"-">>, Parens(lit5, 1)),
                            otherStar}, MaxList)}

Inputs == {Parens(e, k) : e \in Inputs0, k \in {0, MaxParens}}

TelChildren ==
    {ExprChild(e) : e \in {lit5, taxonX, otherStar,
                           InfixContext(taxonX, kbetween, FALSE, lit5),
                           InfixContext(taxonX, kbetween, TRUE,
                                        InfixContext(lit5, kand, FALSE, lit10))}}
    \cup {ErrorNode(<<"$">>, 1, 0), ErrorNode(<<")">>, 2, 7)}
    \cup {TerminalNode(<<"<", "E", "O", "F", ">">>)}

----------------------------------------------------------------------------
(* The state machine: one call of one entry point per behaviour            *)

InitParseExpr ==
    /\ pc = "parse_expr"
    /\ ctx \in Inputs
    /\ node = NoNode /\ tel = None
    /\ s = None /\ unquoted = None
    /\ tree = <<>> /\ pos = 0 /\ statements = <<>> /\ result = NoNode

InitUnquote ==
    /\ pc = "unquote"
    /\ s \in StringsUpTo(MaxLen)
    /\ unquoted = None
    /\ ctx = NoCtx /\ node = NoNode /\ tel = None
    /\ tree = <<>> /\ pos = 0 /\ statements = <<>> /\ result = NoNode

InitFromTel ==
    /\ pc = "from_tel"
    /\ tree \in SeqsUpTo(TelChildren, MaxChildren)
    /\ pos = 1 /\ statements = <<>> /\ result = NoNode
    /\ ctx = NoCtx /\ node = NoNode /\ tel = None
    /\ s = None /\ unquoted = None

Init == InitParseExpr \/ InitUnquote \/ InitFromTel

\* PqlAntlrToAstParser.parse_expr(ctx)
CallParseExpr ==
    /\ pc = "parse_expr"
    /\ node' = parse_expr(ctx, <<>>)
    /\ pc' = "lifted"
    /\ UNCHANGED <<ctx, tel, s, unquoted, tree, pos, statements, result>>

\* to_tel(node), on the AST a lift returned
CallToTel ==
    /\ pc = "lifted"
    /\ ~IsParseError(node)
    /\ tel' = to_tel(node)
    /\ pc' = "rendered"
    /\ UNCHANGED <<ctx, node, s, unquoted, tree, pos, statements, result>>

\* unquote(s)
CallUnquote ==
    /\ pc = "unquote"
    /\ unquoted' = unquote(s)
    /\ pc' = "unquoted"
    /\ UNCHANGED <<ctx, node, tel, s, tree, pos, statements, result>>

\* V.visitExpr: lift the expression and append it, or let its error out
visitExpr ==
    /\ pc = "from_tel"
    /\ pos <= Len(tree)
    /\ tree[pos].kind = "expr"
    /\ LET lifted == parse_expr(tree[pos].ctx, <<pos>>)
       IN  IF IsParseError(lifted)
           THEN /\ result' = lifted
                /\ pc' = "raised"
                /\ UNCHANGED <<pos, statements>>
           ELSE /\ statements' = Append(statements, lifted)
                /\ pos' = pos + 1
                /\ UNCHANGED <<pc, result>>
    /\ UNCHANGED <<ctx, node, tel, s, unquoted, tree>>

\* PqlVisitor.visitErrorNode
visitErrorNode ==
    /\ pc = "from_tel"
    /\ pos <= Len(tree)
    /\ tree[pos].kind = "error"
    /\ result' = error_node_error(tree[pos])
    /\ pc' = "raised"
    /\ UNCHANGED <<ctx, node, tel, s, unquoted, tree, pos, statements>>

\* the visitor's default for a token that is no error
visitTerminal ==
    /\ pc = "from_tel"
    /\ pos <= Len(tree)
    /\ tree[pos].kind = "terminal"
    /\ pos' = pos + 1
    /\ UNCHANGED <<pc, ctx, node, tel, s, unquoted, tree, statements, result>>

\* from_tel's return, once the visit is over
from_tel_return ==
    /\ pc = "from_tel"
    /\ pos > Len(tree)
    /\ result' = first_statement(statements)
    /\ pc' = "returned"
    /\ UNCHANGED <<ctx, node, tel, s, unquoted, tree, pos, statements>>

Next ==
    \/ CallParseExpr
    \/ CallToTel
    \/ CallUnquote
    \/ visitExpr
    \/ visitErrorNode
    \/ visitTerminal
    \/ from_tel_return

Spec == Init /\ [][Next]_vars

----------------------------------------------------------------------------
(* Vocabulary of the properties *)

Lifted == pc \in {"lifted", "rendered"}

\* the tree a node roots, with the object identities left out: what
\* structural equality of two ASTs compares
RECURSIVE StripOid(_)
StripOid(n) ==
    CASE n.kind = "Expr" ->
            Expr(n.operator, [i \in DOMAIN n.args |-> StripOid(n.args[i])], <<>>)
      [] n.kind = "Function" ->
            Function(n.function_name, n.args_is_none,
                     [i \in DOMAIN n.args |->
                        [arg_name |-> n.args[i].arg_name,
                         arg_value |-> StripOid(n.args[i].arg_value)]],
                     <<>>)
      [] n.kind = "Literal" -> Literal(n.value, n.raw_value, <<>>)
      [] n.kind = "Taxon" -> Taxon(n.slug, n.namespace, n.is_optional, n.tag, <<>>)
      [] OTHER -> n

\* the children of a node, in order
Children(n) ==
    CASE n.kind = "Expr" -> n.args
      [] n.kind = "Function" -> [i \in DOMAIN n.args |-> n.args[i].arg_value]
      [] OTHER -> <<>>

RECURSIVE Flatten(_)
Flatten(qs) == IF qs = <<>> THEN <<>> ELSE qs[1] \o Flatten(Tail(qs))

\* every reference to a node object in the tree under n, n's own first: one
\* entry per parent position
RECURSIVE References(_)
References(n) ==
    <<n>> \o Flatten([i \in DOMAIN Children(n) |-> References(Children(n)[i])])

RECURSIVE HasParens(_)
HasParens(e) ==
    CASE e.kind = "paren" -> TRUE
      [] e.kind = "unary" -> HasParens(e.right)
      [] e.kind = "infix" ->
            \/ HasParens(e.left)
            \/ (~e.has_right_list /\ HasParens(e.right))
            \/ \E i \in DOMAIN e.right_list : HasParens(e.right_list[i])
      [] e.kind = "fn" -> \E i \in DOMAIN e.arguments : HasParens(e.arguments[i])
      [] OTHER -> FALSE

\* the same expression written with no paren wrapper anywhere
RECURSIVE RemoveParens(_)
RemoveParens(e) ==
    CASE e.kind = "paren" -> RemoveParens(e.inner)
      [] e.kind = "unary" -> UnaryContext(e.unary_operator, RemoveParens(e.right))
      [] e.kind = "infix" ->
            IF e.has_right_list
            THEN InfixListContext(RemoveParens(e.left), e.operator, e.is_negated,
                                  [i \in DOMAIN e.right_list |-> RemoveParens(e.right_list[i])])
            ELSE InfixContext(RemoveParens(e.left), e.operator, e.is_negated,
                              RemoveParens(e.right))
      [] e.kind = "fn" ->
            FnContext(e.function_name, e.has_arguments,
                      [i \in DOMAIN e.arguments |-> RemoveParens(e.arguments[i])])
      [] OTHER -> e

\* the context parse_expr works on once the wrappers around ctx are gone
Top == unwrap_expr_parens(ctx)

IsBetween(e) ==
    e.kind = "infix" /\ upper(e.operator) = kBETWEEN /\ ~e.has_right_list

LiftedOk(x) == ~IsParseError(x)

IsAnd2(x) == LiftedOk(x) /\ x.kind = "Expr" /\ x.operator = kAND /\ Len(x.args) = 2

----------------------------------------------------------------------------
(* C1 *)

\* C1: a BETWEEN node whose right side lifts to AND(b, c) lifts to
\* AND(>=(a,b), <=(a,c)), or to OR(<(a,b), >(a,c)) when its negation flag is
\* set, with a the lifted left operand; the result is not wrapped in NOT and
\* holds no Expr whose operator is BETWEEN.
C1_BetweenDesugared ==
    (Lifted /\ IsBetween(Top)) =>
        LET a == parse_expr(Top.left, <<>>)
            r == parse_expr(Top.right, <<>>)
        IN  (LiftedOk(a) /\ IsAnd2(r)) =>
                /\ LiftedOk(node)
                /\ StripOid(node) =
                     StripOid(IF Top.is_negated
                              THEN Expr(kOR, <<Expr(kLT, <<a, r.args[1]>>, <<>>),
                                               Expr(kGT, <<a, r.args[2]>>, <<>>)>>, <<>>)
                              ELSE Expr(kAND, <<Expr(kGE, <<a, r.args[1]>>, <<>>),
                                                Expr(kLE, <<a, r.args[2]>>, <<>>)>>, <<>>))
                /\ \A i \in DOMAIN References(node) :
                      References(node)[i].kind = "Expr"
                          => References(node)[i].operator # kBETWEEN

C1_Witness ==
    /\ Lifted /\ IsBetween(Top) /\ Top.is_negated /\ HasParens(Top.right)
    /\ LiftedOk(parse_expr(Top.left, <<>>))
    /\ IsAnd2(parse_expr(Top.right, <<>>))
    /\ LiftedOk(node) /\ node.operator = kOR

----------------------------------------------------------------------------
(* C2 *)

\* C2: a BETWEEN node whose right side lifts to anything but a two-argument
\* AND makes parse_expr raise ParseError, the malformed-BETWEEN one when both
\* sides lift, whether or not the negation flag is set; no node is returned.
C2_MalformedBetween ==
    (Lifted /\ IsBetween(Top)) =>
        LET a == parse_expr(Top.left, <<>>)
            r == parse_expr(Top.right, <<>>)
        IN  ~IsAnd2(r) =>
                /\ IsParseError(node)
                /\ (LiftedOk(a) /\ LiftedOk(r)) =>
                      /\ node.error = "between"
                      /\ node.text = full_text(Top.right)

C2_Witness ==
    /\ Lifted /\ IsBetween(Top) /\ Top.is_negated
    /\ LiftedOk(parse_expr(Top.left, <<>>))
    /\ LET r == parse_expr(Top.right, <<>>)
       IN  LiftedOk(r) /\ r.kind = "Expr" /\ r.operator = kAND /\ Len(r.args) = 3
    /\ IsParseError(node) /\ node.error = "between"

----------------------------------------------------------------------------
(* C3 *)

\* the text the lifter copies from a source span, blanked: the raw_value of
\* a Literal folded from a unary minus, and the name of a function argument
RECURSIVE EraseCopiedText(_)
EraseCopiedText(n) ==
    CASE n.kind = "Expr" ->
            Expr(n.operator, [i \in DOMAIN n.args |-> EraseCopiedText(n.args[i])], <<>>)
      [] n.kind = "Function" ->
            Function(n.function_name, n.args_is_none,
                     [i \in DOMAIN n.args |->
                        [arg_name |-> IF n.args[i].arg_name = None THEN None ELSE <<>>,
                         arg_value |-> EraseCopiedText(n.args[i].arg_value)]],
                     <<>>)
      [] n.kind = "Literal" ->
            Literal(n.value,
                    IF n.oid[Len(n.oid)] = siteFoldMinus THEN <<>> ELSE n.raw_value,
                    <<>>)
      [] n.kind = "Taxon" -> Taxon(n.slug, n.namespace, n.is_optional, n.tag, <<>>)
      [] OTHER -> n

\* a paren wrapper lies inside source text that the lifter copies into the
\* AST: the operand of a unary minus that folds into a Literal, or the left
\* of the = of a named function argument
RECURSIVE ParensInCopiedText(_)
ParensInCopiedText(e) ==
    CASE e.kind = "paren" -> ParensInCopiedText(e.inner)
      [] e.kind = "unary" ->
            \/ ParensInCopiedText(e.right)
            \/ /\ upper(e.unary_operator) = kMINUS
               /\ HasParens(e.right)
               /\ LET r == parse_expr(e.right, <<>>)
                  IN  LiftedOk(r) /\ r.kind = "Literal" /\ isinstance_number(r.value)
      [] e.kind = "infix" ->
            \/ ParensInCopiedText(e.left)
            \/ (~e.has_right_list /\ ParensInCopiedText(e.right))
            \/ \E i \in DOMAIN e.right_list : ParensInCopiedText(e.right_list[i])
      [] e.kind = "fn" ->
            \E i \in DOMAIN e.arguments :
                \/ ParensInCopiedText(e.arguments[i])
                \/ LET arg == unwrap_expr_parens(e.arguments[i])
                   IN  arg.kind = "infix" /\ arg.operator = kEQ /\ HasParens(arg.left)
      [] OTHER -> FALSE

----------------------------------------------------------------------------
(* C4 *)

\* C4: the rendered text represents every operand and every operator of the
\* AST it was rendered from: each node's own rendering occurs in the text.
C4_RenderKeepsEveryOperand ==
    pc = "rendered" =>
        \A i \in DOMAIN References(node) :
            LET n == References(node)[i]
            IN  /\ Occurs(to_r(n), tel)
                /\ n.kind = "Expr" => Occurs(n.operator, tel)

----------------------------------------------------------------------------
(* C5 *)

\* C5: unary minus folds into a Literal exactly when its lifted operand is a
\* Literal whose value is an integer or a floating-point number; over a
\* boolean, null or text Literal, or any other node, the result is the
\* explicit Expr('-', (operand,)).
C5_MinusFoldsOnlyNumbers ==
    (Lifted /\ Top.kind = "unary" /\ upper(Top.unary_operator) = kMINUS) =>
        LET right == parse_expr(Top.right, <<>>)
        IN  LiftedOk(right) =>
                StripOid(node) =
                    IF right.kind = "Literal" /\ right.value.t \in {"int", "float"}
                    THEN Literal(times_minus_one(right.value), full_text(Top), <<>>)
                    ELSE StripOid(Expr(kMINUS, <<right>>, <<>>))

----------------------------------------------------------------------------
(* C6 *)

\* C6: an infix node whose operator is not BETWEEN lifts to
\* Expr(OP, (left, r1, ..., rn)), OP the upper-cased operator text and the
\* operands lifted in source order, and to Expr('NOT', (that Expr,)) when the
\* negation flag is set.
C6_InfixPositiveForm ==
    (Lifted /\ Top.kind = "infix" /\ upper(Top.operator) # kBETWEEN) =>
        LET left == parse_expr(Top.left, <<>>)
            rights == IF Top.has_right_list
                      THEN [i \in DOMAIN Top.right_list |->
                               parse_expr(Top.right_list[i], <<>>)]
                      ELSE <<parse_expr(Top.right, <<>>)>>
            positive == Expr(upper(Top.operator), <<left>> \o rights, <<>>)
        IN  (LiftedOk(left) /\ ~HasError(rights)) =>
                StripOid(node) =
                    StripOid(IF Top.is_negated THEN Expr(kNOT, <<positive>>, <<>>)
                             ELSE positive)

C6_Witness ==
    /\ Lifted /\ Top.kind = "infix" /\ Top.operator = kin
    /\ Top.has_right_list /\ Len(Top.right_list) = 2 /\ Top.is_negated
    /\ LiftedOk(node) /\ node.operator = kNOT
    /\ Len(node.args) = 1 /\ Len(node.args[1].args) = 3

----------------------------------------------------------------------------
(* C7 *)

\* every backslash-escaped quote replaced by the bare quote, left to right
RECURSIVE Unescaped(_)
Unescaped(t) ==
    IF t = <<>> THEN <<>>
    ELSE IF Len(t) >= 2 /\ t[1] = BS /\ t[2] \in {DQ, SQ}
         THEN <<t[2]>> \o Unescaped(SubSeq(t, 3, Len(t)))
         ELSE <<t[1]>> \o Unescaped(Tail(t))

\* C7: unquote strips one matching outer pair of quotes and then unescapes
\* the quotes inside; a text with no such wrapper comes back unchanged.
C7_UnquoteOnlyWrapped ==
    pc = "unquoted" =>
        IF Len(s) >= 2 /\ s[1] = s[Len(s)] /\ s[1] \in {DQ, SQ}
        THEN unquoted = Unescaped(SubSeq(s, 2, Len(s) - 1))
        ELSE unquoted = s

----------------------------------------------------------------------------
(* C8 *)

\* C8: a taxon node lifts to Taxon(unquote(slug), unquote(namespace),
\* is_optional, unquote(tag)), an absent namespace or tag staying absent.
C8_TaxonUnquoted ==
    (Lifted /\ Top.kind = "taxon") =>
        StripOid(node) = Taxon(unquote(Top.slug), unquote(Top.namespace),
                               Top.is_optional, unquote(Top.tag), <<>>)

----------------------------------------------------------------------------
(* C9 *)

ExprChildren == {i \in DOMAIN tree : tree[i].kind = "expr"}
FirstExprChild == CHOOSE i \in ExprChildren : \A j \in ExprChildren : i <= j

\* C9: from_tel returns the lift of the first top-level expression, or None
\* when there is none, and only when the visit met no error node; at an
\* error node it raises ParseError with the node's symbol, its line and its
\* column counted from 1, whatever was lifted before.
C9_FromTel ==
    /\ pc = "returned" =>
          /\ \A i \in DOMAIN tree : tree[i].kind # "error"
          /\ result = IF ExprChildren = {} THEN NoneNode
                      ELSE parse_expr(tree[FirstExprChild].ctx, <<FirstExprChild>>)
    /\ (pc = "raised" /\ tree[pos].kind = "error") =>
          /\ IsParseError(result)
          /\ result.error = "symbol"
          /\ result.text = tree[pos].text
          /\ result.line = tree[pos].line
          /\ result.position = tree[pos].column + 1

C9_Witness ==
    /\ pc = "raised" /\ tree[pos].kind = "error"
    /\ statements # <<>>
    /\ IsParseError(result) /\ result.position = 8

----------------------------------------------------------------------------
(* C10 *)

\* C10: the AST parse_expr returns is a strict tree: no node object is
\* referenced from two places in it.
C10_StrictTree ==
    (Lifted /\ LiftedOk(node)) =>
        \A i, j \in DOMAIN References(node) :
            References(node)[i].oid = References(node)[j].oid => i = j

====
